---- MODULE Spec2Model ----
(***************************************************************************)
(* A model of the marlbot updater: the version helpers and the release     *)
(* fetch of updater.py, its parallel download manager, and the check /     *)
(* update cycle of main.py that drives them.                               *)
(*                                                                         *)
(* Four specifications share the module:                                   *)
(*   Spec         one call of download_all_assets on a batch of assets     *)
(*   SpecLive     the same call under a fair schedule                      *)
(*   SpecVersion  the pure version helpers applied to bounded strings      *)
(*   SpecCycle    the Updater window: bootstrap, check_github,             *)
(*                start_update, DownloadThread.run, finish_update          *)
(*                                                                         *)
(* A Python str is a sequence of one-character strings; None is the        *)
(* one-element sequence <<"None">>, which no str of the model equals.      *)
(***************************************************************************)
EXTENDS Integers, Sequences, FiniteSets, TLC

VARIABLES
    \* ---- version helpers (SpecVersion)
    v_tag, v_title, v_local, v_pc, v_result, v_best,
    \* ---- download_all_assets (Spec, and the download of SpecCycle)
    assets,      \* the assets argument: a sequence of [name, size]
    exact,       \* TRUE: every transfer delivers exactly its declared size
    pc,          \* where the calling thread is
    todo,        \* the filtered assets
    total,       \* sum of the declared sizes of todo
    cl_path,     \* destination of changelog.json, or None
    nsub,        \* Len(futures): tasks submitted so far
    offset,      \* the running offset of the submit loop
    toff,        \* toff[i]: the offset handed to task i
    st,          \* st[i]: "queued", "running", "streaming", "done", "failed"
    downloaded,  \* downloaded[i]: bytes task i has written
    disk,        \* disk[name]: the bytes of target_dir/name
    reported,    \* reported[i]: the on_progress calls of task i, [n, val]
    last,        \* the last on_progress call: [src, val], src 0 = the final tick
    initFin,     \* as_completed: failed futures of its snapshot, not yet yielded
    finQ,        \* as_completed: the first future that failed later (at most one)
    err,         \* the task whose error the call raises (0: none, -1: mkdir)
    firstFail,   \* the task that failed first in time (0: none has failed)
    ret,         \* what the call returned: NoRet until it returns
    \* ---- the Updater window (SpecCycle)
    u_pc, cfg_version, new_version, self_assets, btn_upd, status,
    rel, unhandled, relAtStart, verAtStart, lastDone

verVars == <<v_tag, v_title, v_local, v_pc, v_result, v_best>>
dlVars  == <<assets, exact, pc, todo, total, cl_path, nsub, offset, toff,
             reported, st,
             downloaded, disk, last, initFin, finQ, err, firstFail, ret>>
uiVars  == <<u_pc, cfg_version, new_version, self_assets, btn_upd, status,
             rel, unhandled, relAtStart, verAtStart, lastDone>>
vars    == <<verVars, dlVars, uiVars>>

(***************************************************************************)
(* Strings                                                                 *)
(***************************************************************************)
None == <<"None">>

\* str truthiness: None and "" are falsy
Truthy(x) == x # None /\ x # <<>>

\* Python's  a or b
Or(a, b) == IF Truthy(a) THEN a ELSE b

AsciiDigit == {"0", "1", "2", "3", "4", "5", "6", "7", "8", "9"}

\* A decimal digit outside ASCII. "U+0661" stands for the single character
\* ARABIC-INDIC DIGIT ONE, which \d matches in a str pattern.
UnicodeDigit == {"U+0661"}

\* \d of a str pattern compiled without re.ASCII
IsDigit(c) == c \in AsciiDigit \cup UnicodeDigit

\* int() of one decimal digit
DigitVal(c) ==
    CASE c = "0" -> 0 [] c = "1" -> 1 [] c = "2" -> 2 [] c = "3" -> 3
      [] c = "4" -> 4 [] c = "5" -> 5 [] c = "6" -> 6 [] c = "7" -> 7
      [] c = "8" -> 8 [] c = "9" -> 9 [] c = "U+0661" -> 1

DigitChars == <<"0", "1", "2", "3", "4", "5", "6", "7", "8", "9">>

\* str(n) for a natural number n
RECURSIVE NumStr(_)
NumStr(n) ==
    IF n < 10 THEN <<DigitChars[n + 1]>>
    ELSE NumStr(n \div 10) \o <<DigitChars[(n % 10) + 1]>>

(***************************************************************************)
(* updater.py: version helpers                                             *)
(***************************************************************************)
\* The end of the maximal run of digits that starts at i (i - 1: no digit at i)
RunEnd(s, i) ==
    CHOOSE j \in (i - 1)..Len(s) :
        /\ \A k \in i..j : IsDigit(s[k])
        /\ (j = Len(s) \/ ~IsDigit(s[j + 1]))

\* Where a match of \d+\.\d+\.\d+ that starts at i ends (0: no match at i).
\* Each \d+ is greedy, and a shorter run is followed by a digit, never by
\* ".", so the only candidate is the maximal run.
MatchEnd(s, i) ==
    LET a == RunEnd(s, i) IN
    IF a < i \/ a + 1 > Len(s) \/ s[a + 1] # "." THEN 0
    ELSE LET b == RunEnd(s, a + 2) IN
         IF b < a + 2 \/ b + 1 > Len(s) \/ s[b + 1] # "." THEN 0
         ELSE LET c == RunEnd(s, b + 2) IN
              IF c < b + 2 THEN 0 ELSE c

\* _semver.search(v or ""): the leftmost match, or None
extract(v) ==
    LET s == IF Truthy(v) THEN v ELSE <<>>
        starts == {i \in 1..Len(s) : MatchEnd(s, i) > 0}
    IN  IF starts = {} THEN None
        ELSE LET i == CHOOSE x \in starts : \A y \in starts : x <= y
             IN  SubSeq(s, i, MatchEnd(s, i))

\* Mutant: the title is preferred to the tag
best_version_string_TitleFirst(tag, title) == Or(Or(extract(title), extract(tag)), tag)

\* _extract(tag) or _extract(title) or tag
best_version_string(tag, title) == Or(Or(extract(tag), extract(title)), tag)

\* int() of a run of ASCII digits
RECURSIVE ToInt(_)
ToInt(d) ==
    IF d = <<>> THEN 0
    ELSE ToInt(SubSeq(d, 1, Len(d) - 1)) * 10 + DigitVal(d[Len(d)])

\* r.split(".") for r = digits.digits.digits
SplitRelease(r) ==
    LET a == RunEnd(r, 1)
        b == RunEnd(r, a + 2)
    IN  <<SubSeq(r, 1, a), SubSeq(r, a + 2, b), SubSeq(r, b + 2, Len(r))>>

\* packaging's pattern takes [0-9] only: version.parse raises InvalidVersion
\* on any other digit (packaging 22 and later, which has no LegacyVersion)
ValidVersion(r) == \A k \in 1..Len(r) : r[k] = "." \/ r[k] \in AsciiDigit

\* Version.release
Release(r) == LET p == SplitRelease(r) IN <<ToInt(p[1]), ToInt(p[2]), ToInt(p[3])>>

\* Version._key compares the release with its trailing zeros dropped
RECURSIVE StripZeros(_)
StripZeros(t) ==
    IF t # <<>> /\ t[Len(t)] = 0 THEN StripZeros(SubSeq(t, 1, Len(t) - 1)) ELSE t

\* Python's tuple order on tuples of ints:  a > b
RECURSIVE TupleGt(_, _)
TupleGt(a, b) ==
    IF a = <<>> THEN FALSE
    ELSE IF b = <<>> THEN TRUE
    ELSE IF a[1] # b[1] THEN a[1] > b[1]
    ELSE TupleGt(Tail(a), Tail(b))

\* version.parse(a) > version.parse(b)
VersionGt(a, b) == TupleGt(StripZeros(Release(a)), StripZeros(Release(b)))

\* compare_versions: "True", "False", or the exception that escapes it
compare_versions(remote_tag, local, title) ==
    LET remote == Or(extract(remote_tag), extract(title))
        loc    == extract(local)
    IN  IF Truthy(remote) /\ Truthy(loc)
        THEN IF ~ValidVersion(remote) \/ ~ValidVersion(loc) THEN "InvalidVersion"
             ELSE IF VersionGt(remote, loc) THEN "True" ELSE "False"
        ELSE IF Truthy(remote) /\ ~Truthy(loc) THEN "True"
        ELSE IF ~Truthy(remote) /\ Truthy(loc) THEN "False"
        ELSE "True"

(***************************************************************************)
(* SpecVersion: the version helpers on bounded strings                     *)
(***************************************************************************)
\* The largest number formatted into a version part (besides 9 and 10)
MaxPart == 1

Parts == {NumStr(n) : n \in 0..MaxPart} \cup {<<"9">>, <<"1", "0">>}

Dotted(a, b, c) == a \o <<".">> \o b \o <<".">> \o c

Triples == {Dotted(a, b, c) : a \in Parts, b \in Parts, c \in Parts}

Nightly == <<"n", "i", "g", "h", "t", "l", "y">>

\* Tags a release can carry: v<triple>, and strings around the pattern's edges
Tags ==
    {<<"v">> \o t : t \in Triples}
    \cup { Nightly,
           <<"v", "1", ".", "2">>,
           <<"1", ".", ".", "2", ".", "3">>,
           <<"1", ".", "2", ".", "3", ".", "4">>,
           <<"x", "1", "2", ".", "3", ".", "4", "-", "5", ".", "6", ".", "7">>,
           <<"v", "U+0661", ".", "0", ".", "0">> }

Titles == { None, <<>>, <<"b", "e", "t", "a">>,
            <<"R", " ", "1", ".", "0", ".", "0">> }

Locals ==
    Triples \cup { Nightly, <<>>, <<"0", "1", ".", "0", ".", "0">>,
                   <<"U+0661", ".", "0", ".", "0">> }

VerIdle ==
    /\ v_tag = <<>> /\ v_title = None /\ v_local = <<>>
    /\ v_pc = "off" /\ v_result = "none" /\ v_best = None

VerInit ==
    /\ v_tag \in Tags /\ v_title \in Titles /\ v_local \in Locals
    /\ v_pc = "start" /\ v_result = "none" /\ v_best = None

\* compare_versions(tag, local, title)
CompareVersions ==
    /\ v_pc = "start"
    /\ v_result' = compare_versions(v_tag, v_local, v_title)
    /\ v_pc' = "compared"
    /\ UNCHANGED <<dlVars, uiVars>>
    /\ UNCHANGED <<v_tag, v_title, v_local, v_best>>

\* best_version_string(tag, title): what finish_update persists
BestVersion ==
    /\ v_pc = "start"
    /\ v_best' = best_version_string(v_tag, v_title)
    /\ v_pc' = "resolved"
    /\ UNCHANGED <<dlVars, uiVars>>
    /\ UNCHANGED <<v_tag, v_title, v_local, v_result>>

\* the re-run check of finish_update: the persisted version is the local one
Recheck ==
    /\ v_pc = "resolved"
    /\ v_result' = compare_versions(v_tag, v_best, v_title)
    /\ v_pc' = "rechecked"
    /\ UNCHANGED <<dlVars, uiVars>>
    /\ UNCHANGED <<v_tag, v_title, v_local, v_best>>

(***************************************************************************)
(* updater.py: the download manager                                        *)
(***************************************************************************)
CHUNK == 1048576

MAX_WORKERS == 4

\* The most bytes a transfer delivers beyond its asset's declared size
MaxOver == 1

UpperCase == <<"A", "B", "C", "D", "E", "F", "G", "H", "I", "J", "K", "L", "M",
               "N", "O", "P", "Q", "R", "S", "T", "U", "V", "W", "X", "Y", "Z">>
LowerCase == <<"a", "b", "c", "d", "e", "f", "g", "h", "i", "j", "k", "l", "m",
               "n", "o", "p", "q", "r", "s", "t", "u", "v", "w", "x", "y", "z">>

\* str.lower()
lower(s) ==
    [k \in 1..Len(s) |->
        IF \E j \in 1..26 : UpperCase[j] = s[k]
        THEN LowerCase[CHOOSE j \in 1..26 : UpperCase[j] = s[k]]
        ELSE s[k]]

\* str.startswith(p)
startswith(s, p) == Len(s) >= Len(p) /\ SubSeq(s, 1, Len(p)) = p

SourceCode == <<"S", "o", "u", "r", "c", "e", " ", "c", "o", "d", "e">>

ChangelogJson == <<"c", "h", "a", "n", "g", "e", "l", "o", "g", ".", "j", "s", "o", "n">>

\* a["name"].startswith("Source code")
IsSourceCode(name) == startswith(name, SourceCode)

\* Mutant: the comparison without lower()
IsChangelog_CaseSensitive(name) == name = ChangelogJson

\* a["name"].lower() == "changelog.json"
IsChangelog(name) == lower(name) = ChangelogJson

\* Mutant: no filter
Todo_NoFilter(as) == as

\* todo = [a for a in assets if not a["name"].startswith("Source code")]
RECURSIVE Todo(_)
Todo(as) ==
    IF as = <<>> THEN <<>>
    ELSE IF IsSourceCode(as[1].name) THEN Todo(Tail(as))
    ELSE <<as[1]>> \o Todo(Tail(as))

\* sum(a["size"] for a in todo)
RECURSIVE SumSizes(_)
SumSizes(as) == IF as = <<>> THEN 0 ELSE as[1].size + SumSizes(Tail(as))

\* target_dir / a["name"]
Dest(name) == <<"target_dir", "/">> \o name

\* The integers n up to 500 for which the double nearest to n / 100, times
\* 100, rounds to a double below n: 29 / 100 * 100 is 28.999999999999996
FloatLow ==
    { 29, 57, 58, 113, 114, 115, 116, 201, 203, 205, 207, 226, 228, 230, 232,
      251, 253, 255, 402, 406, 410, 414, 427, 431, 435, 439, 452, 456, 460,
      464, 477, 481, 485, 489 }

\* int(done_bytes / total * 100), in double arithmetic. When total does not
\* divide done_bytes * 100 the rounding errors are too small to change the
\* integer part. When it does, with quotient n, done_bytes / total is the
\* double nearest to n / 100, and the product is n or the double below it.
\* (Equal to the code's expression for total <= 400, done_bytes <= 5 * total.)
Percent(done_bytes, tot) ==
    LET n == (done_bytes * 100) \div tot
    IN  IF (done_bytes * 100) % tot = 0 /\ n \in FloatLow THEN n - 1 ELSE n

\* on_progress was not called yet
NoTick == [src |-> -1, val |-> -1]

\* tick(done_bytes), called by task src (0: the caller's final tick): the
\* last on_progress call after it. DownloadThread always passes on_progress.
tick(src, done_bytes) ==
    IF total # 0
    THEN [src |-> src, val |-> Percent(done_bytes, total)]
    ELSE last

\* Task i has not called on_progress
NoReport == [n |-> 0, val |-> -1]

\* What each task has reported after task i called tick(done_bytes): how
\* many calls it made (2: two or more) and the value of its last one
Report(i, done_bytes) ==
    IF total # 0
    THEN [reported EXCEPT ![i] = [n   |-> IF @.n < 2 THEN @.n + 1 ELSE 2,
                                  val |-> Percent(done_bytes, total)]]
    ELSE reported

NoRet == <<"NoRet">>

Finished(i) == st[i] \in {"done", "failed"}

AllFinished == \A i \in 1..nsub : Finished(i)

\* f.write(chunk) of c bytes at position p of file f by task i; a gap (another
\* handle truncated the file meanwhile) reads as 0
WriteAt(f, p, c, i) ==
    [k \in 1..(IF Len(f) > p + c THEN Len(f) ELSE p + c) |->
        IF k > p /\ k <= p + c THEN i
        ELSE IF k <= Len(f) THEN f[k] ELSE 0]

\* ---- the calling thread ------------------------------------------------

\* Entry: mkdir, the filter, the total. mkdir may raise (FilesystemError)
\* before anything else is done.
Call ==
    /\ pc = "start"
    /\ \/ /\ pc' = "submit"
          /\ todo' = Todo(assets)
          /\ total' = SumSizes(Todo(assets))
          /\ cl_path' = None
          /\ UNCHANGED err
       \/ /\ pc' = "raised"
          /\ err' = -1
          /\ UNCHANGED <<todo, total, cl_path>>
    /\ UNCHANGED <<verVars, uiVars>>
    /\ UNCHANGED <<assets, exact, nsub, offset, toff, reported, st, downloaded, disk,
                   last, initFin, finQ, firstFail, ret>>

\* One iteration of  for a in todo:  pool.submit(_grab, sess, a, out, tick, offset)
Submit ==
    /\ pc = "submit"
    /\ nsub < Len(todo)
    /\ LET a == todo[nsub + 1] IN
        /\ cl_path' = IF IsChangelog(a.name) THEN Dest(a.name) ELSE cl_path
        /\ toff' = Append(toff, offset)
        /\ offset' = offset + a.size
    /\ st' = Append(st, "queued")
    /\ downloaded' = Append(downloaded, 0)
    /\ reported' = Append(reported, NoReport)
    /\ nsub' = nsub + 1
    /\ UNCHANGED <<verVars, uiVars>>
    /\ UNCHANGED <<assets, exact, pc, todo, total, disk, last, initFin,
                   finQ, err, firstFail, ret>>

\* as_completed(futures) starts: the futures already finished are yielded
\* first, in the order of a set; the others as they complete. A future that
\* finished without error passes f.result() with no effect, so the model
\* keeps the failed ones only, in the order they are yielded.
BeginCollect ==
    /\ pc = "submit"
    /\ nsub = Len(todo)
    /\ pc' = "collect"
    /\ initFin' = {i \in 1..nsub : st[i] = "failed"}
    /\ finQ' = <<>>
    /\ UNCHANGED <<verVars, uiVars>>
    /\ UNCHANGED <<assets, exact, todo, total, cl_path, nsub, offset, toff, reported, st,
                   downloaded, disk, last, err, firstFail, ret>>

\* f.result() of the yielded future f re-raises the exception of its task,
\* which leaves the loop (and the generator)
Result(f) ==
    /\ pc' = "unwind"
    /\ err' = f
    /\ initFin' = {}
    /\ finQ' = <<>>

\* One iteration of  for f in as_completed(futures): f.result()
Collect ==
    /\ pc = "collect"
    /\ \/ /\ initFin # {}
          /\ \E f \in initFin : Result(f)
       \/ /\ initFin = {}
          /\ finQ # <<>>
          /\ Result(Head(finQ))
    /\ UNCHANGED <<verVars, uiVars>>
    /\ UNCHANGED <<assets, exact, todo, total, cl_path, nsub, offset, toff, reported, st,
                   downloaded, disk, last, firstFail, ret>>

\* Mutant: shutdown(wait=False), the exception reaches the caller at once
Unwind_NoWait ==
    /\ pc = "unwind"
    /\ pc' = "raised"
    /\ UNCHANGED <<verVars, uiVars>>
    /\ UNCHANGED <<assets, exact, todo, total, cl_path, nsub, offset, toff, reported, st,
                   downloaded, disk, last, initFin, finQ, err, firstFail, ret>>

\* The exception leaves the with block: ThreadPoolExecutor.__exit__ is
\* shutdown(wait=True), which returns once every submitted task has run;
\* then the exception reaches the caller
Unwind ==
    /\ pc = "unwind"
    /\ AllFinished
    /\ pc' = "raised"
    /\ UNCHANGED <<verVars, uiVars>>
    /\ UNCHANGED <<assets, exact, todo, total, cl_path, nsub, offset, toff, reported, st,
                   downloaded, disk, last, initFin, finQ, err, firstFail, ret>>

\* Mutant: no final tick
Return_NoFinalTick ==
    /\ pc = "collect"
    /\ initFin = {} /\ finQ = <<>>
    /\ AllFinished
    /\ pc' = "returned"
    /\ ret' = cl_path
    /\ UNCHANGED <<verVars, uiVars>>
    /\ UNCHANGED <<assets, exact, todo, total, cl_path, nsub, offset, toff, reported, st,
                   downloaded, disk, last, initFin, finQ, err, firstFail>>

\* Every future was yielded without error: the with block ends, tick(total),
\* return str(cl_path) if cl_path else None
Return ==
    /\ pc = "collect"
    /\ initFin = {} /\ finQ = <<>>
    /\ AllFinished
    /\ pc' = "returned"
    /\ last' = tick(0, total)
    /\ ret' = cl_path
    /\ UNCHANGED <<verVars, uiVars>>
    /\ UNCHANGED <<assets, exact, todo, total, cl_path, nsub, offset, toff, reported, st,
                   downloaded, disk, initFin, finQ, err, firstFail>>

\* ---- the worker pool ---------------------------------------------------

Active == {j \in 1..nsub : st[j] \in {"running", "streaming"}}

\* The future of task i is set: as_completed, once started, queues it behind
\* the futures that finished before it. The first failed future it yields
\* ends the loop, so of the failed futures the model queues the first only.
Complete(i, how) ==
    /\ st' = [st EXCEPT ![i] = how]
    /\ finQ' = IF pc = "collect" /\ how = "failed" /\ finQ = <<>>
               THEN <<i>> ELSE finQ
    /\ firstFail' = IF how = "failed" /\ firstFail = 0 THEN i ELSE firstFail

\* Mutant: a pool whose workers take no queued task once the caller unwinds
Start_StopsOnShutdown(i) ==
    /\ pc # "unwind"
    /\ st[i] = "queued"
    /\ \A j \in 1..(i - 1) : st[j] # "queued"
    /\ Cardinality(Active) < MAX_WORKERS
    /\ st' = [st EXCEPT ![i] = "running"]
    /\ UNCHANGED <<verVars, uiVars>>
    /\ UNCHANGED <<assets, exact, pc, todo, total, cl_path, nsub, offset, toff,
                   reported, downloaded, disk, last, initFin, finQ, err,
                   firstFail, ret>>

\* Mutant: a pool that starts every task at once
Start_Unbounded(i) ==
    /\ st[i] = "queued"
    /\ \A j \in 1..(i - 1) : st[j] # "queued"
    /\ st' = [st EXCEPT ![i] = "running"]
    /\ UNCHANGED <<verVars, uiVars>>
    /\ UNCHANGED <<assets, exact, pc, todo, total, cl_path, nsub, offset, toff, reported,
                   downloaded, disk, last, initFin, finQ, err, firstFail, ret>>

\* A free worker takes the oldest queued work item and calls _grab
Start(i) ==
    /\ st[i] = "queued"
    /\ \A j \in 1..(i - 1) : st[j] # "queued"
    /\ Cardinality(Active) < MAX_WORKERS
    /\ st' = [st EXCEPT ![i] = "running"]
    /\ UNCHANGED <<verVars, uiVars>>
    /\ UNCHANGED <<assets, exact, pc, todo, total, cl_path, nsub, offset, toff, reported,
                   downloaded, disk, last, initFin, finQ, err, firstFail, ret>>

\* _grab: session.get answers with a success status; open(dest, "wb")
\* truncates the file; raise_for_status passes
Respond(i) ==
    /\ st[i] = "running"
    /\ st' = [st EXCEPT ![i] = "streaming"]
    /\ disk' = [disk EXCEPT ![todo[i].name] = <<>>]
    /\ UNCHANGED <<verVars, uiVars>>
    /\ UNCHANGED <<assets, exact, pc, todo, total, cl_path, nsub, offset, toff, reported,
                   downloaded, last, initFin, finQ, err, firstFail, ret>>

\* _grab: session.get raises (transport error, timeout): nothing was opened
FailGet(i) ==
    /\ st[i] = "running"
    /\ Complete(i, "failed")
    /\ UNCHANGED <<verVars, uiVars>>
    /\ UNCHANGED <<assets, exact, pc, todo, total, cl_path, nsub, offset, toff, reported,
                   downloaded, disk, last, initFin, err, ret>>

\* _grab: session.get answers with an error status. The with statement has
\* opened dest for writing before raise_for_status raises.
FailStatus(i) ==
    /\ st[i] = "running"
    /\ Complete(i, "failed")
    /\ disk' = [disk EXCEPT ![todo[i].name] = <<>>]
    /\ UNCHANGED <<verVars, uiVars>>
    /\ UNCHANGED <<assets, exact, pc, todo, total, cl_path, nsub, offset, toff, reported,
                   downloaded, last, initFin, err, ret>>

\* The bytes a transfer may still deliver
Room(i) ==
    (IF exact THEN todo[i].size ELSE todo[i].size + MaxOver) - downloaded[i]

\* Mutant: tick(offset + len(chunk)), the bytes of the last chunk only
Chunk_TickChunkOnly(i, c) ==
    /\ st[i] = "streaming"
    /\ c <= CHUNK
    /\ c <= Room(i)
    /\ disk' = [disk EXCEPT ![todo[i].name] = WriteAt(@, downloaded[i], c, i)]
    /\ downloaded' = [downloaded EXCEPT ![i] = @ + c]
    /\ last' = tick(i, toff[i] + c)
    /\ reported' = Report(i, toff[i] + c)
    /\ UNCHANGED <<verVars, uiVars>>
    /\ UNCHANGED <<assets, exact, pc, todo, total, cl_path, nsub, offset, toff,
                   st, initFin, finQ, err, firstFail, ret>>

\* _grab: one chunk of c bytes: f.write, downloaded += len(chunk), tick
Chunk(i, c) ==
    /\ st[i] = "streaming"
    /\ c <= CHUNK
    /\ c <= Room(i)
    /\ disk' = [disk EXCEPT ![todo[i].name] = WriteAt(@, downloaded[i], c, i)]
    /\ downloaded' = [downloaded EXCEPT ![i] = @ + c]
    /\ last' = tick(i, toff[i] + downloaded[i] + c)
    /\ reported' = Report(i, toff[i] + downloaded[i] + c)
    /\ UNCHANGED <<verVars, uiVars>>
    /\ UNCHANGED <<assets, exact, pc, todo, total, cl_path, nsub, offset, toff,
                   st, initFin, finQ, err, firstFail, ret>>

\* _grab: the body ends; the file and the response are closed
Eof(i) ==
    /\ st[i] = "streaming"
    /\ exact => downloaded[i] = todo[i].size
    /\ Complete(i, "done")
    /\ UNCHANGED <<verVars, uiVars>>
    /\ UNCHANGED <<assets, exact, pc, todo, total, cl_path, nsub, offset, toff, reported,
                   downloaded, disk, last, initFin, err, ret>>

\* _grab: the transfer breaks in the body, or f.write raises: the file
\* keeps what was written
FailStream(i) ==
    /\ st[i] = "streaming"
    /\ Complete(i, "failed")
    /\ UNCHANGED <<verVars, uiVars>>
    /\ UNCHANGED <<assets, exact, pc, todo, total, cl_path, nsub, offset, toff, reported,
                   downloaded, disk, last, initFin, err, ret>>

\* ---- the batches of Spec ------------------------------------------------
NameA == <<"a", ".", "e", "x", "e">>
NameB == <<"b", ".", "d", "l", "l">>
NameC == <<"c", ".", "b", "i", "n">>
NameD == <<"d", ".", "d", "a", "t">>
NameE == <<"e", ".", "c", "f", "g">>
NameChangelogMixed == <<"C", "h", "a", "n", "g", "e", "L", "o", "g", ".", "J", "S", "O", "N">>
NameChangelogBak == ChangelogJson \o <<".", "b", "a", "k">>
NameSourceZip == SourceCode \o <<" ", "(", "z", "i", "p", ")">>
NameSourceLower == <<"s", "o", "u", "r", "c", "e", " ", "c", "o", "d", "e", ".", "t", "x", "t">>

Asset(n, sz) == [name |-> n, size |-> sz]

\* Asset lists of a release
Batches ==
    { <<>>,
      <<Asset(NameSourceZip, 2)>>,
      <<Asset(NameA, 0), Asset(NameB, 0)>>,
      <<Asset(NameA, 1), Asset(NameB, 2), Asset(NameC, 3)>>,
      <<Asset(NameSourceZip, 2), Asset(NameA, 1), Asset(NameChangelogMixed, 1)>>,
      <<Asset(ChangelogJson, 1), Asset(NameB, 2)>>,
      <<Asset(NameSourceLower, 1), Asset(NameChangelogBak, 1)>> }

\* One asset more than the pool has workers
PoolBatch ==
    <<Asset(NameA, 1), Asset(NameB, 0), Asset(NameC, 0), Asset(NameD, 0),
      Asset(NameE, 1)>>

\* A larger asset behind a small one: it is at 29 of 50 bytes after 28 of
\* its own
HalfBatch == <<Asset(NameA, 1), Asset(NameB, 49)>>

\* A list that names one file twice: download_all_assets takes any list
DupBatch == <<Asset(NameA, 1), Asset(NameA, 1)>>

\* The calls of Spec: <<assets, exact>>. The batches run with exact and with
\* inexact declared sizes, the other lists with exact ones.
Inputs ==
    (Batches \X BOOLEAN)
    \cup {<<PoolBatch, TRUE>>, <<HalfBatch, TRUE>>, <<DupBatch, TRUE>>}

AllNames == { NameA, NameB, NameC, NameD, NameE, ChangelogJson, NameChangelogMixed,
              NameChangelogBak, NameSourceZip, NameSourceLower }

\* target_dir before the call: every name holds one byte of an older file (-1)
OldDisk == [n \in AllNames |-> <<-1>>]

DLIdle ==
    /\ assets = <<>> /\ exact = TRUE /\ pc = "idle"
    /\ todo = <<>> /\ total = 0 /\ cl_path = None
    /\ nsub = 0 /\ offset = 0 /\ toff = <<>> /\ st = <<>> /\ downloaded = <<>>
    /\ reported = <<>>
    /\ disk = OldDisk /\ last = NoTick
    /\ initFin = {} /\ finQ = <<>> /\ err = 0 /\ firstFail = 0 /\ ret = NoRet

\* download_all_assets is called with one of the calls Ins
DLInitOf(Ins) ==
    /\ \E in \in Ins : assets = in[1] /\ exact = in[2]
    /\ pc = "start"
    /\ todo = <<>> /\ total = 0 /\ cl_path = None
    /\ nsub = 0 /\ offset = 0 /\ toff = <<>> /\ st = <<>> /\ downloaded = <<>>
    /\ reported = <<>>
    /\ disk = OldDisk /\ last = NoTick
    /\ initFin = {} /\ finQ = <<>> /\ err = 0 /\ firstFail = 0 /\ ret = NoRet

DLInit == DLInitOf(Inputs)

\* One asset more than the pool has workers, all of them empty files
LivePoolBatch ==
    <<Asset(NameA, 0), Asset(NameB, 0), Asset(NameC, 0), Asset(NameD, 0),
      Asset(NameE, 0)>>

\* The calls of SpecLive: more assets than workers, an empty list, and a list
\* whose transfers may deliver more than the declared sizes
LiveInputs ==
    { <<LivePoolBatch, TRUE>>, <<<<>>, TRUE>>,
      <<<<Asset(ChangelogJson, 1), Asset(NameB, 2)>>, FALSE>> }

(***************************************************************************)
(* updater.py: fetch_latest_release, and main.py: the Updater window       *)
(***************************************************************************)
Version000 == <<"0", ".", "0", ".", "0">>
TagV000 == <<"v", "0", ".", "0", ".", "0">>
TagV010 == <<"v", "0", ".", "1", ".", "0">>
TitleR100 == <<"R", " ", "1", ".", "0", ".", "0">>

\* A JSON object of the registry: which keys it has, and their values
Body(hasTag, tag, hasName, title, hasAssets, as) ==
    [hasTag |-> hasTag, tag_name |-> tag, hasName |-> hasName, name |-> title,
     hasAssets |-> hasAssets, assets |-> as]

NoBody == Body(FALSE, <<>>, FALSE, <<>>, FALSE, <<>>)

\* The well-formed bodies  GET /repos/{repo}/releases/latest  answers with
Bodies ==
    { Body(TRUE, TagV000, TRUE, <<>>, TRUE, <<Asset(NameA, 1)>>),
      Body(TRUE, TagV010, TRUE, <<>>, TRUE, <<Asset(NameSourceZip, 2), Asset(NameA, 1)>>),
      Body(TRUE, Nightly, TRUE, TitleR100, TRUE, <<Asset(ChangelogJson, 1)>>),
      Body(TRUE, Nightly, TRUE, None, TRUE, <<Asset(NameB, 0)>>),
      Body(TRUE, TagV010, FALSE, <<>>, TRUE, <<Asset(NameSourceZip, 2)>>),
      Body(FALSE, <<>>, TRUE, <<>>, TRUE, <<Asset(NameA, 1)>>),
      Body(TRUE, TagV010, TRUE, <<>>, FALSE, <<>>),
      Body(TRUE, <<"v", "U+0661", ".", "0", ".", "0">>, TRUE, <<>>, TRUE, <<Asset(NameA, 1)>>) }

\* fetch_latest_release: its outcomes. requests.get, raise_for_status or
\* r.json() raises; or r.json() is returned as it is.
fetch_latest_release ==
    {[raised |-> TRUE, json |-> NoBody]}
    \cup {[raised |-> FALSE, json |-> b] : b \in Bodies}

NoFetch == [raised |-> TRUE, json |-> NoBody]

\* check_github, given the outcome o of its fetch and the local version: the
\* widget state it leaves, and whether an exception escaped it
check_github(o, local) ==
    LET cur == [status |-> "checking", new_version |-> new_version,
                self_assets |-> self_assets, btn_upd |-> btn_upd,
                unhandled |-> FALSE]
    IN  IF o.raised THEN [cur EXCEPT !.status = "error"]
        ELSE IF ~o.json.hasTag THEN [cur EXCEPT !.unhandled = TRUE]
        ELSE
          LET remote == o.json.tag_name
              title  == IF o.json.hasName THEN o.json.name ELSE <<>>
              c1     == [cur EXCEPT !.new_version = best_version_string(remote, title)]
              newer  == compare_versions(remote, local, title)
          IN  IF newer = "InvalidVersion" THEN [c1 EXCEPT !.unhandled = TRUE]
              ELSE IF newer = "True"
              THEN IF ~o.json.hasAssets
                   THEN [c1 EXCEPT !.status = "available", !.unhandled = TRUE]
                   ELSE IF Todo(o.json.assets) = <<>>
                   THEN [c1 EXCEPT !.status = "noassets",
                                   !.self_assets = Todo(o.json.assets)]
                   ELSE [c1 EXCEPT !.status = "available",
                                   !.self_assets = Todo(o.json.assets),
                                   !.btn_upd = TRUE]
              ELSE [c1 EXCEPT !.status = "uptodate", !.btn_upd = FALSE]

\* The widget state after check_github
Checked(r) ==
    /\ status' = r.status
    /\ new_version' = r.new_version
    /\ self_assets' = r.self_assets
    /\ btn_upd' = r.btn_upd
    /\ unhandled' = (unhandled \/ r.unhandled)

\* Updater.__init__ -> bootstrap: no folder chosen, or check_github. An
\* exception that escapes here ends the process.
Bootstrap ==
    /\ u_pc = "boot"
    /\ \/ /\ status' = "nofolder"
          /\ u_pc' = "idle"
          /\ UNCHANGED <<new_version, self_assets, btn_upd, unhandled, rel>>
       \/ \E o \in fetch_latest_release :
             /\ rel' = o
             /\ Checked(check_github(o, cfg_version))
             /\ u_pc' = IF check_github(o, cfg_version).unhandled THEN "crashed" ELSE "idle"
    /\ UNCHANGED <<cfg_version, relAtStart, verAtStart, lastDone>>
    /\ UNCHANGED <<verVars, dlVars>>

\* Mutant: the slot leaves the button enabled
start_update_KeepsButton ==
    /\ u_pc \in {"idle", "downloading"}
    /\ btn_upd
    /\ u_pc' = "downloading"
    /\ relAtStart' = rel
    /\ verAtStart' = cfg_version
    /\ lastDone' = "none"
    /\ assets' = self_assets
    /\ exact' \in BOOLEAN
    /\ pc' = "start"
    /\ todo' = <<>> /\ total' = 0 /\ cl_path' = None
    /\ nsub' = 0 /\ offset' = 0 /\ toff' = <<>> /\ st' = <<>> /\ downloaded' = <<>>
    /\ reported' = <<>>
    /\ last' = NoTick /\ initFin' = {} /\ finQ' = <<>> /\ err' = 0 /\ ret' = NoRet
    /\ firstFail' = 0
    /\ UNCHANGED <<btn_upd, disk, cfg_version, new_version, self_assets, status, rel, unhandled>>
    /\ UNCHANGED verVars

\* The Update button: while the window runs, a click on the enabled button
\* reaches the slot: DownloadThread(self.assets, dir).start()
start_update ==
    /\ u_pc \in {"idle", "downloading"}
    /\ btn_upd
    /\ btn_upd' = FALSE
    /\ u_pc' = "downloading"
    /\ relAtStart' = rel
    /\ verAtStart' = cfg_version
    /\ lastDone' = "none"
    /\ assets' = self_assets
    /\ exact' \in BOOLEAN
    /\ pc' = "start"
    /\ todo' = <<>> /\ total' = 0 /\ cl_path' = None
    /\ nsub' = 0 /\ offset' = 0 /\ toff' = <<>> /\ st' = <<>> /\ downloaded' = <<>>
    /\ reported' = <<>>
    /\ last' = NoTick /\ initFin' = {} /\ finQ' = <<>> /\ err' = 0 /\ ret' = NoRet
    /\ firstFail' = 0
    /\ UNCHANGED <<disk, cfg_version, new_version, self_assets, status, rel, unhandled>>
    /\ UNCHANGED verVars

\* Mutant: the version is saved whether or not the download succeeded
finish_update_AlwaysSaves ==
    /\ u_pc = "downloading"
    /\ pc \in {"returned", "raised"}
    /\ cfg_version' = new_version
    /\ lastDone' = IF pc = "returned" THEN "ok" ELSE "fail"
    /\ \E o \in fetch_latest_release :
          /\ rel' = o
          /\ Checked(check_github(o, new_version))
    /\ u_pc' = "idle"
    /\ pc' = "idle"
    /\ UNCHANGED <<relAtStart, verAtStart>>
    /\ UNCHANGED <<assets, exact, todo, total, cl_path, nsub, offset, toff,
                   reported, st, downloaded, disk, last, initFin, finQ, err,
                   firstFail, ret>>
    /\ UNCHANGED verVars

\* DownloadThread.run emits done(ok, msg, cl); the slot finish_update runs:
\* save the version if ok, then check_github again. An exception that
\* escapes a slot is printed and the window stays.
finish_update ==
    /\ u_pc = "downloading"
    /\ pc \in {"returned", "raised"}
    /\ LET ok  == pc = "returned"
           ver == IF ok THEN new_version ELSE cfg_version
       IN  /\ cfg_version' = ver
           /\ lastDone' = IF ok THEN "ok" ELSE "fail"
           /\ \E o \in fetch_latest_release :
                 /\ rel' = o
                 /\ Checked(check_github(o, ver))
    /\ u_pc' = "idle"
    /\ pc' = "idle"
    /\ UNCHANGED <<relAtStart, verAtStart>>
    /\ UNCHANGED <<assets, exact, todo, total, cl_path, nsub, offset, toff,
                   reported, st, downloaded, disk, last, initFin, finQ, err,
                   firstFail, ret>>
    /\ UNCHANGED verVars

UIIdle ==
    /\ u_pc = "off" /\ cfg_version = <<>> /\ new_version = None
    /\ self_assets = <<>> /\ btn_upd = FALSE /\ status = "" /\ rel = NoFetch
    /\ unhandled = FALSE /\ relAtStart = NoFetch /\ verAtStart = <<>>
    /\ lastDone = "none"

\* load_cfg: the default record, or a file that holds another version string
UIInit ==
    /\ u_pc = "boot" /\ cfg_version \in {Version000, Nightly} /\ new_version = None
    /\ self_assets = <<>> /\ btn_upd = FALSE /\ status = "" /\ rel = NoFetch
    /\ unhandled = FALSE /\ relAtStart = NoFetch /\ verAtStart = <<>>
    /\ lastDone = "none"

(***************************************************************************)
(* Specifications                                                          *)
(***************************************************************************)
Init == DLInit /\ VerIdle /\ UIIdle

Next ==
    \/ Call
    \/ Submit
    \/ BeginCollect
    \/ Collect
    \/ Unwind
    \/ Return
    \/ \E i \in 1..nsub : Start(i)
    \/ \E i \in 1..nsub : Respond(i)
    \/ \E i \in 1..nsub : FailGet(i)
    \/ \E i \in 1..nsub : FailStatus(i)
    \/ \E i \in 1..nsub : \E c \in 1..(IF Room(i) > 0 THEN Room(i) ELSE 0) : Chunk(i, c)
    \/ \E i \in 1..nsub : Eof(i)
    \/ \E i \in 1..nsub : FailStream(i)

Spec == Init /\ [][Next]_vars

\* The longest asset list of SpecLive
MaxTasks ==
    CHOOSE n \in {Len(in[1]) : in \in LiveInputs} : \A in \in LiveInputs : Len(in[1]) <= n

\* The calling thread and the pool's threads are scheduled; a request ends
\* in a response or an error (timeout=60), and a response body ends or
\* breaks: while some step of the call can be taken, one is taken
Fairness == WF_vars(Next)

InitLive == DLInitOf(LiveInputs) /\ VerIdle /\ UIIdle

SpecLive == InitLive /\ [][Next]_vars /\ Fairness

InitVersion == VerInit /\ DLIdle /\ UIIdle

NextVersion == CompareVersions \/ BestVersion \/ Recheck

SpecVersion == InitVersion /\ [][NextVersion]_vars

InitCycle == UIInit /\ DLIdle /\ VerIdle

NextCycle ==
    \/ Bootstrap
    \/ start_update
    \/ finish_update
    \/ Next

SpecCycle == InitCycle /\ [][NextCycle]_vars

(***************************************************************************)
(* Claims                                                                  *)
(***************************************************************************)
\* (major, minor, patch) of a is greater than that of b, lexicographically
TripleGt(a, b) ==
    \/ a[1] > b[1]
    \/ a[1] = b[1] /\ a[2] > b[2]
    \/ a[1] = b[1] /\ a[2] = b[2] /\ a[3] > b[3]

\* The decision table of is_newer
IsNewerTable(tag, title, local) ==
    LET r == Or(extract(tag), extract(title))
        l == extract(local)
    IN  IF r # None /\ l # None
        THEN IF TripleGt(Release(r), Release(l)) THEN "True" ELSE "False"
        ELSE IF r # None THEN "True"
        ELSE IF l # None THEN "False"
        ELSE "True"

\* C1: for every tag, title and local string compare_versions returns the
\* decision table's answer: both versions present, true iff the remote triple
\* is greater; remote only, true; local only, false; neither, true.
C1_DecisionTable ==
    v_pc = "compared" => v_result = IsNewerTable(v_tag, v_title, v_local)

\* The table is what compare_versions returns whenever it returns
C1_TableWhenReturned ==
    v_pc = "compared" /\ v_result # "InvalidVersion"
        => v_result = IsNewerTable(v_tag, v_title, v_local)

\* C7: the check re-run after a successful update, against the release just
\* installed, reports up-to-date: compare_versions(tag,
\* best_version_string(tag, title), title) is false for every tag and title.
C7_RecheckUpToDate ==
    v_pc = "rechecked" => v_result = "False"

\* With a version in the tag or the title, the re-run check returns false
\* unless it raises
C7_RecheckWithVersion ==
    v_pc = "rechecked" /\ Or(extract(v_tag), extract(v_title)) # None
        => v_result \in {"False", "InvalidVersion"}

\* s is digits "." digits "." digits, each run of digits non-empty
IsDottedTriple(s) ==
    \E p \in 2..Len(s) : \E q \in (p + 2)..(Len(s) - 1) :
        /\ s[p] = "." /\ s[q] = "."
        /\ \A k \in (1..Len(s)) \ {p, q} : IsDigit(s[k])

\* The leftmost substring of s that is a dotted triple, taken as far as it
\* reaches; None when s has none (or is None)
LeftmostTriple(s) ==
    LET M == {m \in (1..Len(s)) \X (1..Len(s)) :
                 m[1] <= m[2] /\ IsDottedTriple(SubSeq(s, m[1], m[2]))}
    IN  IF s = None \/ M = {} THEN None
        ELSE LET i == CHOOSE x \in {m[1] : m \in M} : \A m \in M : x <= m[1]
                 j == CHOOSE y \in {m[2] : m \in M} :
                         /\ <<i, y>> \in M
                         /\ \A m \in M : m[1] = i => m[2] <= y
             IN  SubSeq(s, i, j)

\* C11: best_version_string(tag, title) is the leftmost digits.digits.digits
\* substring of the tag when the tag has one, otherwise that of the title
\* when the title has one, otherwise the tag itself, unmodified.
C11_PreferredVersion ==
    v_pc \in {"resolved", "rechecked"} =>
        v_best = IF LeftmostTriple(v_tag) # None THEN LeftmostTriple(v_tag)
                 ELSE IF LeftmostTriple(v_title) # None THEN LeftmostTriple(v_title)
                 ELSE v_tag

\* The tag has no version and the title has one
C11_Witness ==
    /\ v_pc = "resolved"
    /\ v_tag = Nightly
    /\ v_title = TitleR100
    /\ v_best = <<"1", ".", "0", ".", "0">>

\* ---- download_all_assets ------------------------------------------------

\* The call got past mkdir: the filter and the total are computed
Filtered == pc \in {"submit", "collect", "unwind", "returned"} \/ (pc = "raised" /\ err # -1)

\* The positions in assets of the assets whose name does not begin with
\* "Source code"
Kept == {k \in 1..Len(assets) : ~startswith(assets[k].name, SourceCode)}

\* The sum of the declared sizes of the assets at the positions S
RECURSIVE SizeOf(_)
SizeOf(S) ==
    IF S = {} THEN 0
    ELSE LET k == CHOOSE x \in S : TRUE IN assets[k].size + SizeOf(S \ {k})

\* The position in assets of the i-th kept asset
KeptAt(i) == CHOOSE k \in Kept : Cardinality({j \in Kept : j <= k}) = i

\* Another task of the batch has the destination of task i
SharesDest(i) == \E j \in 1..nsub : j # i /\ todo[j].name = todo[i].name

\* Task i wrote every byte of its transfer to its destination, and ended
\* without error. (What a file holds that two tasks write is C13's matter.)
WrittenCompletely(i) ==
    /\ st[i] = "done"
    /\ exact => downloaded[i] = todo[i].size
    /\ SharesDest(i) \/ disk[todo[i].name] = [k \in 1..downloaded[i] |-> i]

\* C2: after a successful batch with total > 0 the last on_progress call is
\* the final tick, and its value is 100, whatever the order the tasks ran in.
C2_LastTickIs100 ==
    pc = "returned" /\ total > 0 => last = [src |-> 0, val |-> 100]

C2_Witness ==
    /\ pc = "returned"
    /\ total = 6
    /\ exact
    /\ downloaded = <<1, 2, 3>>
    /\ last.val = 100

\* C3: when the filtered sizes sum to 0 and the batch succeeds, on_progress
\* is called exactly once, with 100, as the final tick, and no worker calls
\* it before.
C3_ZeroTotalOneTick ==
    Filtered /\ total = 0 =>
        IF pc = "returned" THEN last = [src |-> 0, val |-> 100] ELSE last = NoTick

C5_ProgressRange ==
    last # NoTick => last.val \in 0..100

\* C8: no asset whose name begins with "Source code" is submitted or written,
\* and the total and every offset are sums over the other assets only.
C8_SourceCodeExcluded ==
    /\ \A i \in 1..nsub : ~startswith(todo[i].name, SourceCode)
    /\ \A n \in AllNames : startswith(n, SourceCode) => disk[n] = OldDisk[n]
    /\ Filtered =>
          /\ total = SizeOf(Kept)
          /\ \A i \in 1..nsub :
                /\ todo[i] = assets[KeptAt(i)]
                /\ toff[i] = SizeOf({k \in Kept : k < KeptAt(i)})

C8_Witness ==
    /\ pc = "returned"
    /\ \E k \in 1..Len(assets) : startswith(assets[k].name, SourceCode)
    /\ total = 2
    /\ disk[NameA] = <<1>>
    /\ toff = <<0, 1>>

\* C9: a successful call returns the destination of a filtered asset named
\* changelog.json in any case when there is one, None when there is none;
\* a call that does not succeed returns nothing.
C9_ChangelogPath ==
    LET cl == {k \in Kept : lower(assets[k].name) = lower(ChangelogJson)}
    IN  IF pc = "returned"
        THEN IF cl = {} THEN ret = None
             ELSE \E k \in cl : ret = Dest(assets[k].name)
        ELSE ret = NoRet

C9_Witness ==
    /\ pc = "returned"
    /\ ret = Dest(NameChangelogMixed)

\* The offset of the claim for task i: the declared sizes of the filtered
\* assets before the i-th
OffsetOf(i) == SizeOf({k \in Kept : k < KeptAt(i)})

\* C12: every value a worker reports for asset i is
\* floor((offset_i + w) / total * 100), with offset_i the sum of the declared
\* sizes of the filtered assets before i and w the bytes task i has written;
\* the windows [offset_i, offset_i + size_i) are disjoint and cover 0..total.
C12_WorkerValueIsFloor ==
    /\ last.src >= 1 =>
          last.val = ((OffsetOf(last.src) + downloaded[last.src]) * 100) \div total
    /\ \A i \in 1..nsub : toff[i] = OffsetOf(i)
    /\ pc = "collect" => offset = total

\* What holds of the reported value: it is the code's double expression of
\* the task's own offset and byte count
C12_WorkerValueAsComputed ==
    /\ last.src >= 1 =>
          last.val = Percent(OffsetOf(last.src) + downloaded[last.src], total)
    /\ \A i \in 1..nsub : toff[i] = OffsetOf(i)
    /\ pc = "collect" => offset = total

\* Task i is known to have opened its destination: it got past
\* raise_for_status, or wrote bytes
Opened(i) == st[i] \in {"streaming", "done"} \/ downloaded[i] > 0

\* C13: each destination file is opened and written by at most one task of
\* the batch, for every asset list.
C13_OneWriterPerFile ==
    \A i, j \in 1..nsub :
        i # j /\ Opened(i) /\ Opened(j) => todo[i].name # todo[j].name

\* One writer per file holds of the lists whose names are pairwise distinct
C13_OneWriterDistinctNames ==
    (\A i, j \in 1..Len(assets) : i # j => assets[i].name # assets[j].name)
        => C13_OneWriterPerFile

\* C14: when several tasks fail, the error download_all_assets raises is
\* that of the task that failed first in time.
C14_FirstFailureRaised ==
    pc \in {"unwind", "raised"} /\ err >= 1 => err = firstFail

\* The error raised is that of a task that failed before the call raised
C14_SomeFailureRaised ==
    pc \in {"unwind", "raised"} /\ err >= 1 => st[err] = "failed" /\ firstFail >= 1

\* C15: at most MAX_WORKERS transfers are in progress at any moment; the
\* tasks beyond that stay queued until a worker is free, and every queued
\* task is eventually started.
C15_PoolBound ==
    /\ [](Cardinality(Active) <= MAX_WORKERS)
    /\ \A i \in 1..MaxTasks :
          (i <= nsub /\ st[i] = "queued") ~> (i <= nsub /\ st[i] # "queued")

\* Four transfers are in progress and the fifth task waits in the queue
C15_Witness ==
    /\ nsub = 5
    /\ Cardinality(Active) = MAX_WORKERS
    /\ st[5] = "queued"

\* C16: the values one task reports to on_progress never decrease,
\* whatever the other tasks do in between.
C16_TaskValuesNonDecreasing ==
    [][\A i \in 1..nsub :
          reported[i].n > 0 => reported'[i].val >= reported[i].val]_vars

\* Task 2 reported twice, task 1 reported too, and the last call is task 2's
C16_Witness ==
    /\ nsub >= 2
    /\ reported[2].n = 2
    /\ reported[1].n >= 1
    /\ last.src = 2

\* C17: every call of download_all_assets eventually returns or raises,
\* given that each transfer eventually completes or fails; a failed task
\* does not leave the call waiting for the others forever.
C17_CallFinishes == <>(pc \in {"returned", "raised"})

\* A batch of more tasks than workers raised after a failure, and the task
\* that was queued behind the others ran to its end
C17_Witness ==
    /\ pc = "raised"
    /\ nsub = 5
    /\ firstFail \in 1..4
    /\ st[5] = "done"

\* Every task of the filtered set is submitted and wrote its file completely
AllWritten == nsub = Len(todo) /\ \A i \in 1..nsub : WrittenCompletely(i)

\* C19: with exact declared sizes, on_progress receives 100 only when every
\* asset of the filtered set is completely written: no value is 100 while a
\* task is queued, transferring or failed.
C19_HundredOnlyWhenComplete ==
    exact /\ last.val = 100 => AllWritten

\* The final tick of the caller comes when every asset is written
C19_FinalTickWhenComplete ==
    exact /\ last.src = 0 => AllWritten

\* C20: when the request of an asset fails before a body byte is received
\* (transport error or error status), nothing is written for it: the file
\* already at its destination keeps its content.
C20_FailedRequestKeepsFile ==
    \A i \in 1..nsub :
        st[i] = "failed" /\ downloaded[i] = 0 /\ ~SharesDest(i)
            => disk[todo[i].name] = OldDisk[todo[i].name]

\* ---- the update cycle ---------------------------------------------------

\* rel.get("name", "") of a fetched release
TitleOf(o) == IF o.json.hasName THEN o.json.name ELSE <<>>

\* C6: the persisted current_version changes only on a successful batch:
\* after a failed download it is what it was before start_update, after a
\* successful one it is best_version_string(tag, title) of the release that
\* was checked before the download started.
C6_VersionOnlyOnSuccess ==
    /\ u_pc = "downloading" => cfg_version = verAtStart
    /\ lastDone = "fail" => cfg_version = verAtStart
    /\ lastDone = "ok" =>
          cfg_version = best_version_string(relAtStart.json.tag_name, TitleOf(relAtStart))

\* A download of a newer release failed in one of its tasks, and the version
\* is the old one
C6_Witness ==
    /\ lastDone = "fail"
    /\ ~unhandled
    /\ err >= 1
    /\ cfg_version = Version000
    /\ best_version_string(relAtStart.json.tag_name, TitleOf(relAtStart)) # Version000

\* C18: at most one download batch is in flight: from start_update to the
\* matching finish_update the Update button is disabled, no second
\* DownloadThread is started, and self.assets and self.new_version keep
\* their values.
C18_SingleBatch ==
    /\ [](u_pc = "downloading" => ~btn_upd)
    /\ [][u_pc = "downloading" =>
            /\ ~start_update
            /\ u_pc' = "downloading" =>
                  self_assets' = self_assets /\ new_version' = new_version]_vars

\* A batch is in flight, its tasks submitted, and the button is disabled
C18_Witness ==
    /\ u_pc = "downloading"
    /\ pc = "collect"
    /\ nsub >= 1
    /\ ~btn_upd

\* C10: fetch_latest_release returns no release that lacks tag_name or
\* assets: it fails with a schema error, so the check on such a response ends
\* in the reported error state, with no exception escaping it.
C10_SchemaError ==
    ~rel.raised /\ (~rel.json.hasTag \/ ~rel.json.hasAssets)
        => status = "error" /\ ~unhandled

====
